---- MODULE Spec2Model ----
(***************************************************************************)
(* Model of the column-validation form of src/src/App.js: the React state  *)
(* (AppState), the four store callbacks (addColumnConfig,                  *)
(* removeColumnConfig, updateColumnConfig, handleColumnSelect) and the     *)
(* sorted display list the callbacks' index arguments come from.           *)
(*                                                                         *)
(* A callback is a closure over the state of the render that created it    *)
(* (variable rendered) and queues a functional update that React applies   *)
(* to the latest state (prevState = the state variables).  JavaScript      *)
(* indices are 0-based; sequences here are 1-based, see At.                *)
(***************************************************************************)
EXTENDS Integers, Sequences, FiniteSets, TLC

VARIABLES
  columnConfigs,     \* AppState.columnConfigs, in insertion order
  availableColumns,  \* AppState.availableColumns
  loading,           \* AppState.loading
  error,             \* AppState.error
  yamlConfig,        \* AppState.yamlConfig
  configSaved,       \* AppState.configSaved
  rendered,          \* the state of the last render, read by the callbacks
  thrown,            \* the exception the last call raised, or "none"
  mounted,           \* FALSE once an update has thrown while rendering
  lastCall           \* the last callback called and its arguments

vars == << columnConfigs, availableColumns, loading, error, yamlConfig,
           configSaved, rendered, thrown, mounted, lastCall >>

appState == << columnConfigs, availableColumns, loading, error, yamlConfig,
               configSaved >>

\* ------------------------------------------------------------------ bounds
\* The model keeps the first NumColumns names of the initial list.
NumColumns == 3
\* Cap on the number of configs in the specifications whose calls may break
\* the rename precondition or share a render (the lists can then grow).
MaxConfigs == 3
\* Cap on the number of names the two lists hold beyond NumColumns.
MaxExtra == 1

\* ------------------------------------------------------------ column names
\* the list without its last name
initialAvailableColumnsShort ==
  << "store_id", "zone_name", "machine_project_id", "fleet_project_id",
     "cluster_name", "location", "node_count", "cluster_ipv4_cidr",
     "services_ipv4_cidr", "external_load_balancer_ipv4_address_pools",
     "sync_repo", "sync_branch", "sync_dir", "secrets_project_id",
     "git_token_secrets_manager_name", "cluster_version",
     "maintenance_window_start", "maintenance_window_end",
     "maintenance_window_recurrence", "maintenance_exclusion_name_1",
     "maintenance_exclusion_start_1", "maintenance_exclusion_end_1",
     "subnet_vlans" >>

initialAvailableColumns ==
  << "store_id", "zone_name", "machine_project_id", "fleet_project_id",
     "cluster_name", "location", "node_count", "cluster_ipv4_cidr",
     "services_ipv4_cidr", "external_load_balancer_ipv4_address_pools",
     "sync_repo", "sync_branch", "sync_dir", "secrets_project_id",
     "git_token_secrets_manager_name", "cluster_version",
     "maintenance_window_start", "maintenance_window_end",
     "maintenance_window_recurrence", "maintenance_exclusion_name_1",
     "maintenance_exclusion_start_1", "maintenance_exclusion_end_1",
     "subnet_vlans", "recreate_on_delete" >>

\* The names in the order of Array.prototype.sort() without comparator
\* (UTF-16 code units); String.prototype.localeCompare orders these names
\* the same way.
ColumnOrder ==
  << "cluster_ipv4_cidr", "cluster_name", "cluster_version",
     "external_load_balancer_ipv4_address_pools", "fleet_project_id",
     "git_token_secrets_manager_name", "location", "machine_project_id",
     "maintenance_exclusion_end_1", "maintenance_exclusion_name_1",
     "maintenance_exclusion_start_1", "maintenance_window_end",
     "maintenance_window_recurrence", "maintenance_window_start",
     "node_count", "recreate_on_delete", "secrets_project_id",
     "services_ipv4_cidr", "store_id", "subnet_vlans", "sync_branch",
     "sync_dir", "sync_repo", "zone_name" >>

Rank(name) == CHOOSE i \in 1..Len(ColumnOrder) : ColumnOrder[i] = name

\* a.localeCompare(b) <= 0, and the default sort's a <= b
NameLeq(a, b) == Rank(a) <= Rank(b)

Universe == { initialAvailableColumns[i] : i \in 1..NumColumns }

\* ----------------------------------------------------------- JS sequences
\* s[i] with a 0-based index
At(s, i) == s[i + 1]

InRange(s, i) == i >= 0 /\ i < Len(s)

Range(s) == { s[i] : i \in 1..Len(s) }

\* slice(1) forgotten: the claimed name stays available
Slice1Kept(s) == s

\* s.slice(1)
Slice1(s) == IF s = << >> THEN << >> ELSE Tail(s)

\* s.filter((_, i) => i !== index)
FilterIndex(s, index) ==
  [ j \in 1..(IF InRange(s, index) THEN Len(s) - 1 ELSE Len(s)) |->
      IF InRange(s, index) /\ j > index THEN s[j + 1] ELSE s[j] ]

\* s.filter((col) => col !== x)
RECURSIVE FilterNotEqual(_, _)
FilterNotEqual(s, x) ==
  IF s = << >> THEN << >>
  ELSE IF Head(s) = x THEN FilterNotEqual(Tail(s), x)
       ELSE << Head(s) >> \o FilterNotEqual(Tail(s), x)

\* Stable insertion of the name x into the sorted sequence s.
RECURSIVE InsertName(_, _)
InsertName(x, s) ==
  IF s = << >> THEN << x >>
  ELSE IF NameLeq(Head(s), x) THEN << Head(s) >> \o InsertName(x, Tail(s))
       ELSE << x >> \o s

\* names.sort()
RECURSIVE SortNames(_)
SortNames(s) ==
  IF s = << >> THEN << >>
  ELSE InsertName(s[Len(s)], SortNames(SubSeq(s, 1, Len(s) - 1)))

\* Stable insertion of the config c into the sequence s sorted by name.
RECURSIVE InsertConfig(_, _)
InsertConfig(c, s) ==
  IF s = << >> THEN << c >>
  ELSE IF NameLeq(Head(s).name, c.name)
       THEN << Head(s) >> \o InsertConfig(c, Tail(s))
       ELSE << c >> \o s

\* [...configs].sort((a, b) => a.name.localeCompare(b.name))
RECURSIVE sortedColumnConfigs(_)
sortedColumnConfigs(configs) ==
  IF configs = << >> THEN << >>
  ELSE InsertConfig(configs[Len(configs)],
                    sortedColumnConfigs(SubSeq(configs, 1, Len(configs) - 1)))

\* ------------------------------------------------------- validation rules
\* An optional field holds None (absent or undefined) or Some(v).
None == << >>
Some(v) == << v >>

RuleFields == { "type", "regex", "allowedValues", "min", "max" }

\* a default rule of another type
DefaultValidationInteger ==
  [ type |-> "integer", regex |-> << >>, allowedValues |-> << >>,
    min |-> << >>, max |-> << >> ]

\* { type: 'string' }
DefaultValidation ==
  [ type |-> "string", regex |-> None, allowedValues |-> None,
    min |-> None, max |-> None ]

\* the partial rule replaces the old rule instead of being merged into it
MergeValidationReplace(old, partial) ==
  [ f \in RuleFields |->
      IF f \in DOMAIN partial THEN partial[f]
      ELSE IF f = "type" THEN old[f] ELSE << >> ]

\* { ...old, ...(partial || {}) }
MergeValidation(old, partial) ==
  [ f \in RuleFields |-> IF f \in DOMAIN partial THEN partial[f] ELSE old[f] ]

\* The partial rules the cards' inputs send: a type choice, a minimum typed
\* into the number input and that input cleared again.
PartialRules ==
  { [ type |-> "integer" ], [ min |-> Some(0) ], [ min |-> None ] }

\* The choices the inputs give updateColumnConfig's newConfig argument.
NewConfigs == { [ validation |-> r ] : r \in PartialRules }

\* ------------------------------------------------------------------ state
\* What the callbacks of the current render close over (state.columnConfigs
\* and state.availableColumns of the last render).
Snapshot == [ columnConfigs |-> columnConfigs,
              availableColumns |-> availableColumns ]

Init ==
  /\ columnConfigs = << >>
  /\ availableColumns = SubSeq(initialAvailableColumns, 1, NumColumns)
  /\ loading = FALSE
  /\ error = None
  /\ yamlConfig = ""
  /\ configSaved = FALSE
  /\ rendered = [ columnConfigs |-> << >>,
                  availableColumns |->
                    SubSeq(initialAvailableColumns, 1, NumColumns) ]
  /\ thrown = "none"
  /\ mounted = TRUE
  /\ lastCall = [ op |-> "mount" ]

\* -------------------------------------------------------------- callbacks
\* configSaved: false forgotten in the update
AddColumnConfigKeepsSaved ==
  /\ thrown' = "none"
  /\ IF Len(rendered.availableColumns) > 0
     THEN /\ columnConfigs' =
               Append(columnConfigs,
                      [ name |-> At(rendered.availableColumns, 0),
                        validation |-> DefaultValidation ])
          /\ availableColumns' = Slice1(availableColumns)
          /\ UNCHANGED << loading, error, yamlConfig, configSaved, mounted >>
     ELSE UNCHANGED << appState, mounted >>

\* addColumnConfig(): the name is read from the render's state, the update
\* is applied to the latest state.
AddColumnConfig ==
  /\ thrown' = "none"
  /\ IF Len(rendered.availableColumns) > 0
     THEN LET newColumnName == At(rendered.availableColumns, 0)
              newConfig == [ name |-> newColumnName,
                             validation |-> DefaultValidation ]
          IN /\ columnConfigs' = Append(columnConfigs, newConfig)
             /\ availableColumns' = Slice1(availableColumns)
             /\ configSaved' = FALSE
             /\ UNCHANGED << loading, error, yamlConfig, mounted >>
     ELSE UNCHANGED << appState, mounted >>

\* the removed name is not added back to availableColumns
RemoveColumnConfigKeepsName(index) ==
  IF InRange(rendered.columnConfigs, index)
  THEN /\ columnConfigs' = FilterIndex(columnConfigs, index)
       /\ configSaved' = FALSE
       /\ thrown' = "none"
       /\ UNCHANGED << availableColumns, loading, error, yamlConfig, mounted >>
  ELSE /\ thrown' = "TypeError"
       /\ UNCHANGED << appState, mounted >>

\* removeColumnConfig(index): reading .name of a missing element throws in
\* the callback, before any update is queued.
RemoveColumnConfig(index) ==
  IF InRange(rendered.columnConfigs, index)
  THEN LET removedColumn == At(rendered.columnConfigs, index).name
       IN /\ columnConfigs' = FilterIndex(columnConfigs, index)
          /\ availableColumns' =
               SortNames(Append(availableColumns, removedColumn))
          /\ configSaved' = FALSE
          /\ thrown' = "none"
          /\ UNCHANGED << loading, error, yamlConfig, mounted >>
  ELSE /\ thrown' = "TypeError"
       /\ UNCHANGED << appState, mounted >>

\* updatedConfigs[index] = { ...updatedConfigs[index], ...newConfig,
\*                           validation: { ...old, ...newConfig.validation } }
UpdatedConfig(config, newConfig) ==
  [ name |-> config.name,
    validation |-> MergeValidation(config.validation, newConfig.validation) ]

\* updateColumnConfig(index, newConfig): the updater reads .validation of a
\* missing element and throws while React renders, which unmounts the form.
UpdateColumnConfig(index, newConfig) ==
  IF InRange(columnConfigs, index)
  THEN /\ columnConfigs' =
            [ columnConfigs EXCEPT
                ![index + 1] = UpdatedConfig(At(columnConfigs, index),
                                             newConfig) ]
       /\ configSaved' = FALSE
       /\ thrown' = "none"
       /\ UNCHANGED << availableColumns, loading, error, yamlConfig, mounted >>
  ELSE /\ thrown' = "TypeError"
       /\ mounted' = FALSE
       /\ UNCHANGED appState

\* the renamed config is created afresh and loses its rule
RenamedConfigFresh(config, selectedColumn) ==
  [ name |-> selectedColumn,
    validation |-> [ f \in RuleFields |->
                       IF f = "type" THEN "string" ELSE << >> ] ]

\* { ...updatedConfigs[index], name: selectedColumn }
RenamedConfig(config, selectedColumn) ==
  [ name |-> selectedColumn, validation |-> config.validation ]

\* concat(oldColumnName) forgotten: the old name is not released
UpdatedAvailableNoRelease(available, selectedColumn, oldColumnName) ==
  SortNames(FilterNotEqual(available, selectedColumn))

\* sort() forgotten: the old name is appended at the end
UpdatedAvailableUnsorted(available, selectedColumn, oldColumnName) ==
  Append(FilterNotEqual(available, selectedColumn), oldColumnName)

\* prevState.availableColumns.filter(...).concat(oldColumnName).sort()
UpdatedAvailable(available, selectedColumn, oldColumnName) ==
  SortNames(Append(FilterNotEqual(available, selectedColumn), oldColumnName))

\* handleColumnSelect(index, selectedColumn)
HandleColumnSelect(index, selectedColumn) ==
  IF InRange(columnConfigs, index)
  THEN LET oldColumnName == At(columnConfigs, index).name
       IN /\ columnConfigs' =
               [ columnConfigs EXCEPT
                   ![index + 1] = RenamedConfig(At(columnConfigs, index),
                                                selectedColumn) ]
          /\ availableColumns' =
               UpdatedAvailable(availableColumns, selectedColumn,
                                oldColumnName)
          /\ configSaved' = FALSE
          /\ thrown' = "none"
          /\ UNCHANGED << loading, error, yamlConfig, mounted >>
  ELSE /\ thrown' = "TypeError"
       /\ mounted' = FALSE
       /\ UNCHANGED appState

\* The choices of the column select of the card showing columnConfig:
\* state.availableColumns.concat(columnConfig.name).sort()
SelectChoices(columnConfig) ==
  SortNames(Append(rendered.availableColumns, columnConfig.name))

\* React renders after the event: the next callbacks close over the new state.
Rerender ==
  rendered' = [ columnConfigs |-> columnConfigs',
                availableColumns |-> availableColumns' ]

\* ------------------------------------------- calls within the preconditions
\* One call per event, index within the configured list, selectedColumn one
\* of the available names.
AddColumn ==
  /\ mounted
  /\ AddColumnConfig
  /\ lastCall' = [ op |-> "addColumn" ]
  /\ Rerender

RemoveColumn(index) ==
  /\ mounted
  /\ InRange(columnConfigs, index)
  /\ RemoveColumnConfig(index)
  /\ lastCall' = [ op |-> "removeColumn", index |-> index ]
  /\ Rerender

RenameColumn(index, newName) ==
  /\ mounted
  /\ InRange(columnConfigs, index)
  /\ newName \in Range(availableColumns)
  /\ HandleColumnSelect(index, newName)
  /\ lastCall' = [ op |-> "renameColumn", index |-> index,
                   newName |-> newName ]
  /\ Rerender

UpdateValidation(index, newConfig) ==
  /\ mounted
  /\ InRange(columnConfigs, index)
  /\ UpdateColumnConfig(index, newConfig)
  /\ lastCall' = [ op |-> "updateValidation", index |-> index,
                   newConfig |-> newConfig ]
  /\ Rerender

Indices == 0..NumColumns

Next ==
  \/ AddColumn
  \/ \E index \in Indices : RemoveColumn(index)
  \/ \E index \in Indices, newName \in Universe : RenameColumn(index, newName)
  \/ \E index \in Indices, newConfig \in NewConfigs :
       UpdateValidation(index, newConfig)

Spec == Init /\ [][Next]_vars

\* ------------------------------------------------ calls with any arguments
\* The callbacks called directly, one call per render, with any index and
\* any name of the universe.  The lists can grow beyond the universe here;
\* WithinBounds caps them.
WithinBounds ==
  /\ Len(columnConfigs) <= MaxConfigs
  /\ Len(columnConfigs) + Len(availableColumns) <= NumColumns + MaxExtra

CallAddColumnConfig ==
  /\ mounted
  /\ AddColumnConfig
  /\ lastCall' = [ op |-> "addColumn" ]
  /\ Rerender
  /\ WithinBounds'

CallRemoveColumnConfig(index) ==
  /\ mounted
  /\ RemoveColumnConfig(index)
  /\ lastCall' = [ op |-> "removeColumn", index |-> index ]
  /\ Rerender
  /\ WithinBounds'

CallHandleColumnSelect(index, selectedColumn) ==
  /\ mounted
  /\ HandleColumnSelect(index, selectedColumn)
  /\ lastCall' = [ op |-> "renameColumn", index |-> index,
                   newName |-> selectedColumn ]
  /\ Rerender
  /\ WithinBounds'

CallUpdateColumnConfig(index, newConfig) ==
  /\ mounted
  /\ UpdateColumnConfig(index, newConfig)
  /\ lastCall' = [ op |-> "updateValidation", index |-> index,
                   newConfig |-> newConfig ]
  /\ Rerender
  /\ WithinBounds'

NextStore ==
  \/ CallAddColumnConfig
  \/ \E index \in Indices : CallRemoveColumnConfig(index)
  \/ \E index \in Indices, selectedColumn \in Universe :
       CallHandleColumnSelect(index, selectedColumn)
  \/ \E index \in Indices, newConfig \in NewConfigs :
       CallUpdateColumnConfig(index, newConfig)

SpecStore == Init /\ [][NextStore]_vars

\* ------------------------------------------- calls sharing one render
\* Several callbacks of the same render are called before React renders
\* again: each closes over the same rendered state, and its update is
\* applied to the state the updates before it left.  The arguments are
\* those the rendered cards offer.
DispatchAddColumn ==
  /\ mounted
  /\ AddColumnConfig
  /\ lastCall' = [ op |-> "addColumn" ]
  /\ UNCHANGED rendered
  /\ WithinBounds'

DispatchRemoveColumn(index) ==
  /\ mounted
  /\ InRange(rendered.columnConfigs, index)
  /\ RemoveColumnConfig(index)
  /\ lastCall' = [ op |-> "removeColumn", index |-> index ]
  /\ UNCHANGED rendered
  /\ WithinBounds'

DispatchRenameColumn(index, newName) ==
  /\ mounted
  /\ InRange(rendered.columnConfigs, index)
  /\ newName \in Range(rendered.availableColumns)
  /\ HandleColumnSelect(index, newName)
  /\ lastCall' = [ op |-> "renameColumn", index |-> index,
                   newName |-> newName ]
  /\ UNCHANGED rendered
  /\ WithinBounds'

DispatchUpdateValidation(index, newConfig) ==
  /\ mounted
  /\ InRange(rendered.columnConfigs, index)
  /\ UpdateColumnConfig(index, newConfig)
  /\ lastCall' = [ op |-> "updateValidation", index |-> index,
                   newConfig |-> newConfig ]
  /\ UNCHANGED rendered
  /\ WithinBounds'

\* The update sent between two renders: a type choice.
BatchedNewConfigs == { [ validation |-> [ type |-> "integer" ] ] }

\* React applies the queued updates and renders.
Render ==
  /\ mounted
  /\ rendered /= Snapshot
  /\ rendered' = Snapshot
  /\ UNCHANGED << appState, thrown, mounted, lastCall >>

NextBatched ==
  \/ DispatchAddColumn
  \/ \E index \in Indices : DispatchRemoveColumn(index)
  \/ \E index \in Indices, newName \in Universe :
       DispatchRenameColumn(index, newName)
  \/ \E index \in Indices, newConfig \in BatchedNewConfigs :
       DispatchUpdateValidation(index, newConfig)
  \/ Render

SpecBatched == Init /\ [][NextBatched]_vars

\* ---------------------------------------------------------- YAML emitter
\* the first config of a name wins instead of the last
RECURSIVE ConfigEntriesFirstWins(_)
ConfigEntriesFirstWins(configs) ==
  IF configs = << >> THEN << >>
  ELSE LET last == configs[Len(configs)]
           before == ConfigEntriesFirstWins(SubSeq(configs, 1, Len(configs) - 1))
       IN IF \E i \in 1..Len(before) : before[i][1] = last.name
          THEN before
          ELSE Append(before, << last.name, last.validation >>)

\* Object.entries(config) after config[col.name] = col.validation for each
\* config in turn: one <<name, rules>> pair per name, at the place of the
\* name's first config, with the rules of its last config.  (The column
\* names are not integer-like keys, so the entries keep insertion order.)
RECURSIVE ConfigEntries(_)
ConfigEntries(configs) ==
  IF configs = << >> THEN << >>
  ELSE LET last == configs[Len(configs)]
           before == ConfigEntries(SubSeq(configs, 1, Len(configs) - 1))
       IN IF \E i \in 1..Len(before) : before[i][1] = last.name
          THEN [ i \in 1..Len(before) |->
                   IF before[i][1] = last.name
                   THEN << last.name, last.validation >> ELSE before[i] ]
          ELSE Append(before, << last.name, last.validation >>)

\* strings.join(separator)
RECURSIVE Join(_, _)
Join(strings, separator) ==
  IF strings = << >> THEN ""
  ELSE IF Len(strings) = 1 THEN strings[1]
       ELSE strings[1] \o separator \o Join(Tail(strings), separator)

\* JSON.stringify of a list of strings that need no escaping
JsonStringify(values) ==
  "[" \o Join([ i \in 1..Len(values) |-> "\"" \o values[i] \o "\"" ], ",")
      \o "]"

\* rules.type || 'string': a type left unset is written "" in the model
TypeOrString(rules) == IF rules.type = "" THEN "string" ELSE rules.type

\* rules.regex ? ... : '' -- an absent and an empty regex are both falsy
RegexGiven(rules) == rules.regex /= None /\ rules.regex[1] /= ""

\* rules.allowedValues?.length: an empty list is taken for no list
AllowedValuesNonEmpty(rules) ==
  rules.allowedValues /= << >> /\ rules.allowedValues[1] /= << >>

\* rules.allowedValues ? ... : '' -- every list is truthy, the empty one too
AllowedValuesGiven(rules) == rules.allowedValues /= None

\* rules.min ? ... : '' -- a bound of 0 is falsy and taken for unset
BoundTruthy(bound) == bound /= << >> /\ bound[1] /= 0

\* rules.min !== undefined, rules.max !== undefined
BoundGiven(bound) == bound /= None

\* `${n}` of an integer
NumberText(n) == ToString(n)

\* The six lines of one entry of the template; an omitted field leaves its
\* line with the indentation only.
EntryLines(column, rules) ==
  << "  " \o column \o ":",
     "    type: " \o TypeOrString(rules),
     "    " \o (IF RegexGiven(rules)
                THEN "regex: \"" \o rules.regex[1] \o "\"" ELSE ""),
     "    " \o (IF AllowedValuesGiven(rules)
                THEN "allowed_values: " \o JsonStringify(rules.allowedValues[1])
                ELSE ""),
     "    " \o (IF BoundGiven(rules.min)
                THEN "min: " \o NumberText(rules.min[1]) ELSE ""),
     "    " \o (IF BoundGiven(rules.max)
                THEN "max: " \o NumberText(rules.max[1]) ELSE "") >>

HeaderLines ==
  << "# Validation Configuration",
     "# This file defines the validation rules for your data.",
     "# Each column in your data file should have an entry here.",
     "",
     "validations:" >>

LinesPerEntry == 6

\* The lines of the entries, joined by '\n' in the template.
RECURSIVE EntriesLines(_)
EntriesLines(entries) ==
  IF entries = << >> THEN << >>
  ELSE EntryLines(entries[1][1], entries[1][2]) \o EntriesLines(Tail(entries))

\* The document line by line: the header, the joined entries (one empty
\* line when there is none) and the empty line after the last '\n'.
YamlLines(configs) ==
  HeaderLines
    \o (IF configs = << >> THEN << "" >>
        ELSE EntriesLines(ConfigEntries(configs)))
    \o << "" >>

\* nothing is produced for an empty list
generateYamlConfigNonEmpty(configs) ==
  IF configs = << >> THEN "" ELSE Join(YamlLines(configs), "\n")

\* generateYamlConfig(columnConfigs)
generateYamlConfig(configs) == Join(YamlLines(configs), "\n")

\* the configs are sorted in place before they are emitted
HandleGenerateConfigSorts ==
  /\ yamlConfig' =
       generateYamlConfig(sortedColumnConfigs(rendered.columnConfigs))
  /\ columnConfigs' = sortedColumnConfigs(columnConfigs)
  /\ configSaved' = FALSE
  /\ thrown' = "none"
  /\ UNCHANGED << availableColumns, loading, error, mounted >>

\* handleGenerateConfig(): the text is computed from the render's state.
HandleGenerateConfig ==
  /\ yamlConfig' = generateYamlConfig(rendered.columnConfigs)
  /\ configSaved' = FALSE
  /\ thrown' = "none"
  /\ UNCHANGED << columnConfigs, availableColumns, loading, error, mounted >>

\* handleSaveConfig(): the same text is stored and handed to the download.
HandleSaveConfig ==
  /\ yamlConfig' = generateYamlConfig(rendered.columnConfigs)
  /\ configSaved' = TRUE
  /\ thrown' = "none"
  /\ UNCHANGED << columnConfigs, availableColumns, loading, error, mounted >>

GenerateYaml ==
  /\ mounted
  /\ HandleGenerateConfig
  /\ lastCall' = [ op |-> "generate" ]
  /\ Rerender

SaveYaml ==
  /\ mounted
  /\ HandleSaveConfig
  /\ lastCall' = [ op |-> "save" ]
  /\ Rerender

\* ----------------------------------------------- the emitter on any input
\* Cap on the length of the config lists given to the emitter.
MaxEmitConfigs == 2

\* Rules given to the emitter: type unset, regex absent, empty and set,
\* allowedValues absent, empty and set, bounds absent, 0 and non-zero.
EmitRules ==
  { DefaultValidation,
    [ DefaultValidation EXCEPT !.type = "" ],
    [ DefaultValidation EXCEPT !.regex = Some("^a$") ],
    [ DefaultValidation EXCEPT !.regex = Some("") ],
    [ DefaultValidation EXCEPT !.allowedValues = Some(<< "a", "b" >>) ],
    [ DefaultValidation EXCEPT !.type = "integer",
                               !.allowedValues = Some(<< >>),
                               !.min = Some(0), !.max = Some(10) ],
    [ DefaultValidation EXCEPT !.type = "integer", !.max = Some(0) ],
    [ DefaultValidation EXCEPT !.type = "float", !.regex = Some("^a$"),
                               !.min = Some(5) ] }

EmitConfigs == [ name : Universe, validation : EmitRules ]

RECURSIVE ListsUpTo(_, _)
ListsUpTo(elements, n) ==
  IF n = 0 THEN { << >> }
  ELSE LET shorter == ListsUpTo(elements, n - 1)
       IN shorter \cup { Append(l, e) : l \in shorter, e \in elements }

\* Any config list, names repeated or not, as the state the emitter reads.
InitEmit ==
  /\ columnConfigs \in ListsUpTo(EmitConfigs, MaxEmitConfigs)
  /\ availableColumns = << >>
  /\ loading = FALSE
  /\ error = None
  /\ yamlConfig = ""
  /\ configSaved = FALSE
  /\ rendered = Snapshot
  /\ thrown = "none"
  /\ mounted = TRUE
  /\ lastCall = [ op |-> "mount" ]

NextEmit == GenerateYaml \/ SaveYaml

SpecEmit == InitEmit /\ [][NextEmit]_vars

\* ------------------------------------- the store with Generate and Save
\* Cap on the number of configs while the emitted text is part of the state.
MaxYamlConfigs == 3

\* The update sent in this specification: a type choice.
YamlNewConfigs == { [ validation |-> [ type |-> "integer" ] ] }

\* The cap leaves the call with no name available (a no-op) enabled.
YamlAddColumn ==
  /\ Len(columnConfigs) < MaxYamlConfigs \/ availableColumns = << >>
  /\ AddColumn

YamlRemoveColumn(index) == RemoveColumn(index)

YamlRenameColumn(index, newName) == RenameColumn(index, newName)

YamlUpdateValidation(index, newConfig) == UpdateValidation(index, newConfig)

NextYaml ==
  \/ YamlAddColumn
  \/ \E index \in Indices : YamlRemoveColumn(index)
  \/ \E index \in Indices, newName \in Universe :
       YamlRenameColumn(index, newName)
  \/ \E index \in Indices, newConfig \in YamlNewConfigs :
       YamlUpdateValidation(index, newConfig)
  \/ GenerateYaml
  \/ SaveYaml

SpecYaml == Init /\ [][NextYaml]_vars

\* ------------------------------------------- the numeric inputs of a card
\* Cap on the number of configs while bounds are typed in.
MaxInputConfigs == 1

\* The value of a decimal digit character.
DigitValue(c) ==
  CASE c = "0" -> 0 [] c = "1" -> 1 [] c = "2" -> 2 [] c = "3" -> 3
    [] c = "4" -> 4 [] c = "5" -> 5 [] c = "6" -> 6 [] c = "7" -> 7
    [] c = "8" -> 8 [] c = "9" -> 9

\* Number(text) for a non-empty decimal text, given as its characters.
RECURSIVE ToNumber(_)
ToNumber(text) ==
  IF text[1] = "-" THEN 0 - ToNumber(Tail(text))
  ELSE IF Len(text) = 1 THEN DigitValue(text[1])
  ELSE 10 * ToNumber(SubSeq(text, 1, Len(text) - 1))
         + DigitValue(text[Len(text)])

\* e.target.value ? Number(e.target.value) : undefined
NumberInput(text) == IF text /= << >> THEN Some(ToNumber(text)) ELSE None

\* What is typed into the minimum input: cleared, 0 and 12.
MinTexts == { << >>, << "0" >>, << "1", "2" >> }

\* What is typed into the maximum input: cleared and 0.
MaxTexts == { << >>, << "0" >> }

\* The card at position index shows the numeric inputs when the config it
\* displays is of a numeric type.
ShowsBounds(index) ==
  /\ InRange(rendered.columnConfigs, index)
  /\ At(sortedColumnConfigs(rendered.columnConfigs), index).validation.type
       \in { "integer", "float" }

InputAddColumn ==
  /\ Len(columnConfigs) < MaxInputConfigs
  /\ AddColumn

\* onValueChange of the type select
SelectType(index, type) ==
  /\ mounted
  /\ InRange(rendered.columnConfigs, index)
  /\ UpdateColumnConfig(index, [ validation |-> [ type |-> type ] ])
  /\ lastCall' = [ op |-> "updateValidation", index |-> index,
                   newConfig |-> [ validation |-> [ type |-> type ] ] ]
  /\ Rerender

\* onChange of the minimum input
TypeMinimum(index, text) ==
  /\ mounted
  /\ ShowsBounds(index)
  /\ UpdateColumnConfig(index,
                        [ validation |-> [ min |-> NumberInput(text) ] ])
  /\ lastCall' = [ op |-> "updateValidation", index |-> index,
                   newConfig |->
                     [ validation |-> [ min |-> NumberInput(text) ] ],
                   field |-> "min", text |-> text ]
  /\ Rerender

\* onChange of the maximum input
TypeMaximum(index, text) ==
  /\ mounted
  /\ ShowsBounds(index)
  /\ UpdateColumnConfig(index,
                        [ validation |-> [ max |-> NumberInput(text) ] ])
  /\ lastCall' = [ op |-> "updateValidation", index |-> index,
                   newConfig |->
                     [ validation |-> [ max |-> NumberInput(text) ] ],
                   field |-> "max", text |-> text ]
  /\ Rerender

InputGenerateYaml == GenerateYaml

NextInput ==
  \/ InputAddColumn
  \/ \E index \in Indices, type \in { "integer", "string" } :
       SelectType(index, type)
  \/ \E index \in Indices, text \in MinTexts : TypeMinimum(index, text)
  \/ \E index \in Indices, text \in MaxTexts : TypeMaximum(index, text)
  \/ InputGenerateYaml

SpecInput == Init /\ [][NextInput]_vars

\* ------------------------------------------------- the whole list of names
\* The store started from the whole initialState: every name of
\* availableColumns, no config.  The calls are Add Column, Remove on the
\* last config and the first choice of the last config's select, the latter
\* while at most MaxFullRenames configs exist.
MaxFullRenames == 6

InitFull ==
  /\ columnConfigs = << >>
  /\ availableColumns = initialAvailableColumns
  /\ loading = FALSE
  /\ error = None
  /\ yamlConfig = ""
  /\ configSaved = FALSE
  /\ rendered = [ columnConfigs |-> << >>,
                  availableColumns |-> initialAvailableColumns ]
  /\ thrown = "none"
  /\ mounted = TRUE
  /\ lastCall = [ op |-> "mount" ]

FullAddColumn == AddColumn

FullRemoveColumn ==
  RemoveColumn(Len(columnConfigs) - 1)

FullRenameColumn ==
  /\ availableColumns /= << >>
  /\ Len(columnConfigs) <= MaxFullRenames
  /\ RenameColumn(Len(columnConfigs) - 1, availableColumns[1])

NextFull ==
  \/ FullAddColumn
  \/ FullRemoveColumn
  \/ FullRenameColumn

SpecFull == InitFull /\ [][NextFull]_vars

\* ------------------------------------------------------------- invariants
ConfigNames == { columnConfigs[i].name : i \in 1..Len(columnConfigs) }

AvailableNames == Range(availableColumns)

TypeOK ==
  /\ \A i \in 1..Len(columnConfigs) :
       /\ columnConfigs[i].name \in Universe
       /\ DOMAIN columnConfigs[i].validation = RuleFields
  /\ AvailableNames \subseteq Universe
  /\ configSaved \in BOOLEAN
  /\ mounted \in BOOLEAN
  /\ thrown \in { "none", "TypeError" }

\* ---------------------------------------------------------------- claims
\* C1: after every operation of a sequence of addColumn, removeColumn and
\* renameColumn within their preconditions, the configured names and the
\* available names are disjoint and together make up the universe.
DisjointUnion ==
  /\ ConfigNames \cap AvailableNames = {}
  /\ ConfigNames \cup AvailableNames = Universe

\* A rename has acted while names are configured and names are available.
DisjointUnionWitness ==
  /\ lastCall.op = "renameColumn"
  /\ Len(columnConfigs) >= 2
  /\ availableColumns /= << >>

\* C2: no two configs carry the same name and no name occurs twice in
\* availableColumns.
OneConfigPerName ==
  /\ \A i, j \in 1..Len(columnConfigs) :
       columnConfigs[i].name = columnConfigs[j].name => i = j
  /\ \A i, j \in 1..Len(availableColumns) :
       availableColumns[i] = availableColumns[j] => i = j

\* An update has acted with two configs and a name left to claim.
OneConfigPerNameWitness ==
  /\ lastCall.op = "updateValidation"
  /\ Len(columnConfigs) >= 2
  /\ Len(availableColumns) >= 1

\* C5: addColumn with a name available claims the first available name,
\* appends one config of that name with the rule type=string and nothing
\* else set, and removes that name from availableColumns; with no name
\* available it leaves the state unchanged.
AddClaimsFirstAvailable ==
  [][ lastCall'.op = "addColumn" =>
        IF availableColumns /= << >>
        THEN /\ columnConfigs' =
                  Append(columnConfigs,
                         [ name |-> Head(availableColumns),
                           validation |->
                             [ type |-> "string", regex |-> None,
                               allowedValues |-> None, min |-> None,
                               max |-> None ] ])
             /\ availableColumns' = Tail(availableColumns)
        ELSE appState' = appState ]_vars

\* addColumn was called with no name available: the list still ends with a
\* config whose rule was edited, so nothing was appended.
AddClaimsFirstAvailableWitness ==
  /\ lastCall.op = "addColumn"
  /\ availableColumns = << >>
  /\ columnConfigs /= << >>
  /\ columnConfigs[Len(columnConfigs)].validation.type = "integer"

\* C7: renameColumn(index, newName) with newName available: newName becomes
\* configured and not available, the previous name available and not
\* configured, every other name keeps its membership, the number of
\* configs is unchanged and the renamed config keeps its rule.
RenameSwapsMembership ==
  [][ lastCall'.op = "renameColumn" =>
        LET i == lastCall'.index + 1
            new == lastCall'.newName
            old == columnConfigs[i].name
        IN /\ new \in ConfigNames' /\ new \notin AvailableNames'
           /\ old \in AvailableNames' /\ old \notin ConfigNames'
           /\ \A n \in Universe \ { old, new } :
                /\ n \in ConfigNames' <=> n \in ConfigNames
                /\ n \in AvailableNames' <=> n \in AvailableNames
           /\ Len(columnConfigs') = Len(columnConfigs)
           /\ columnConfigs'[i].name = new
           /\ columnConfigs'[i].validation = columnConfigs[i].validation
    ]_vars

\* A config with an edited rule has just been renamed.
RenameSwapsMembershipWitness ==
  /\ lastCall.op = "renameColumn"
  /\ columnConfigs[lastCall.index + 1].name = lastCall.newName
  /\ columnConfigs[lastCall.index + 1].validation.min = Some(0)

\* C9: updateValidation(index, partialRule) gives every field of
\* partialRule its new value, keeps every other field, and leaves the
\* config's name, the other configs, their order and availableColumns alone.
UpdateShallowMerge ==
  [][ lastCall'.op = "updateValidation" =>
        LET i == lastCall'.index + 1
            partial == lastCall'.newConfig.validation
        IN /\ \A f \in RuleFields :
                columnConfigs'[i].validation[f] =
                  IF f \in DOMAIN partial THEN partial[f]
                  ELSE columnConfigs[i].validation[f]
           /\ columnConfigs'[i].name = columnConfigs[i].name
           /\ Len(columnConfigs') = Len(columnConfigs)
           /\ \A j \in 1..Len(columnConfigs) :
                j /= i => columnConfigs'[j] = columnConfigs[j]
           /\ availableColumns' = availableColumns ]_vars

\* The type was updated on a config whose minimum was set before.
UpdateShallowMergeWitness ==
  /\ lastCall.op = "updateValidation"
  /\ "type" \in DOMAIN lastCall.newConfig.validation
  /\ columnConfigs[lastCall.index + 1].validation.min = Some(0)
  /\ Len(columnConfigs) >= 2

\* The position in columnConfigs of the config shown on card i (0-based) of
\* the sorted display list.
ShownPosition(i) ==
  CHOOSE j \in 1..Len(columnConfigs) :
    columnConfigs[j] = At(sortedColumnConfigs(columnConfigs), i)

\* C3: removeColumn(index) deletes the config shown at position index of the
\* list sorted by name and returns that config's name to availableColumns.
RemoveResolvesDisplayOrder ==
  [][ lastCall'.op = "removeColumn"
      /\ InRange(columnConfigs, lastCall'.index) =>
        LET shown == At(sortedColumnConfigs(columnConfigs), lastCall'.index)
        IN /\ columnConfigs' =
                FilterIndex(columnConfigs,
                            ShownPosition(lastCall'.index) - 1)
           /\ shown.name \in AvailableNames'
           /\ shown.name \notin ConfigNames' ]_vars

\* C4: renameColumn and updateValidation called from the card at position
\* index of the sorted display list modify the config shown on that card
\* and no other config.
EditResolvesDisplayOrder ==
  [][ lastCall'.op \in { "renameColumn", "updateValidation" }
      /\ InRange(columnConfigs, lastCall'.index) =>
        LET shownAt == ShownPosition(lastCall'.index)
        IN /\ Len(columnConfigs') = Len(columnConfigs)
           /\ \A j \in 1..Len(columnConfigs) :
                j /= shownAt => columnConfigs'[j] = columnConfigs[j]
           /\ lastCall'.op = "renameColumn" =>
                columnConfigs'[shownAt].name = lastCall'.newName
           /\ lastCall'.op = "updateValidation" =>
                \A f \in DOMAIN lastCall'.newConfig.validation :
                  columnConfigs'[shownAt].validation[f] =
                    lastCall'.newConfig.validation[f] ]_vars

\* C6: removeColumn(index) with index out of range leaves the state
\* unchanged and throws nothing.
RemoveOutOfRangeNoOp ==
  [][ lastCall'.op = "removeColumn"
      /\ ~InRange(columnConfigs, lastCall'.index) =>
        /\ appState' = appState
        /\ thrown' = "none" ]_vars

\* C8: renameColumn(index, newName) with newName claimed by another config
\* is rejected: columnConfigs and availableColumns are unchanged.
RenameToClaimedRejected ==
  [][ lastCall'.op = "renameColumn"
      /\ InRange(columnConfigs, lastCall'.index)
      /\ (\E j \in 1..Len(columnConfigs) :
            /\ j /= lastCall'.index + 1
            /\ columnConfigs[j].name = lastCall'.newName) =>
        /\ columnConfigs' = columnConfigs
        /\ availableColumns' = availableColumns ]_vars

\* C10: callbacks called against the same rendered state act like the same
\* calls made one after the other, so the configured and the available
\* names stay a partition of the universe, each name held once.
BatchedCallsAtomic ==
  /\ ConfigNames \cap AvailableNames = {}
  /\ ConfigNames \cup AvailableNames = Universe
  /\ Cardinality(ConfigNames) = Len(columnConfigs)
  /\ Cardinality(AvailableNames) = Len(availableColumns)

\* ------------------------------------------------------ emitter claims
\* The emitter has produced the text of the current configs.
Emitted == lastCall.op \in { "generate", "save" }

\* The distinct names of a config list, in the order of first occurrence.
RECURSIVE DistinctNames(_)
DistinctNames(configs) ==
  IF configs = << >> THEN << >>
  ELSE LET before == DistinctNames(SubSeq(configs, 1, Len(configs) - 1))
           name == configs[Len(configs)].name
       IN IF name \in Range(before) THEN before ELSE Append(before, name)

\* The rule of the last config of the list that carries the name.
LastRule(configs, name) ==
  LET last == CHOOSE i \in 1..Len(configs) :
                /\ configs[i].name = name
                /\ \A j \in (i + 1)..Len(configs) : configs[j].name /= name
  IN configs[last].validation

\* Line j (1..6) of the k-th entry of the emitted document.
EntryLine(lines, k, j) == lines[Len(HeaderLines) + LinesPerEntry * (k - 1) + j]

\* The number of entries of the emitted document.
EntryCount(lines) == (Len(lines) - Len(HeaderLines) - 1) \div LinesPerEntry

EmitRegexIffPresent ==
  Emitted =>
    LET lines == YamlLines(columnConfigs)
        names == DistinctNames(columnConfigs)
    IN \A k \in 1..Len(names) :
         LET rule == LastRule(columnConfigs, names[k])
         IN /\ (EntryLine(lines, k, 3) /= "    ") <=> (rule.regex /= None)
            /\ (EntryLine(lines, k, 4) /= "    ")
                 <=> (rule.allowedValues /= None)

\* C12 amended: a regex line iff the regex field is present and not the
\* empty string; an allowed_values line iff allowedValues is present (an
\* empty list included), written as a JSON list in the list's order.
EmitRegexIffNonEmpty ==
  Emitted =>
    LET lines == YamlLines(columnConfigs)
        names == DistinctNames(columnConfigs)
    IN \A k \in 1..Len(names) :
         LET rule == LastRule(columnConfigs, names[k])
         IN /\ EntryLine(lines, k, 3) =
                 IF rule.regex /= None /\ rule.regex /= Some("")
                 THEN "    regex: \"" \o rule.regex[1] \o "\"" ELSE "    "
            /\ EntryLine(lines, k, 4) =
                 IF rule.allowedValues = None THEN "    "
                 ELSE IF rule.allowedValues = Some(<< >>)
                      THEN "    allowed_values: []"
                 ELSE IF rule.allowedValues = Some(<< "a", "b" >>)
                      THEN "    allowed_values: [\"a\",\"b\"]"
                 ELSE "    allowed_values: "
                        \o JsonStringify(rule.allowedValues[1])

\* A config with an empty regex and one with an empty list of allowed
\* values have been emitted.
EmitRegexIffNonEmptyWitness ==
  /\ Emitted
  /\ \E i \in 1..Len(columnConfigs) :
       columnConfigs[i].validation.regex = Some("")
  /\ \E i \in 1..Len(columnConfigs) :
       columnConfigs[i].validation.allowedValues = Some(<< >>)
  /\ OneConfigPerName

\* C14: the emitter produces a document for every config list; for the
\* empty list it is the header followed by the validations key and nothing
\* under it.
EmitTotal ==
  Emitted =>
    /\ yamlConfig /= ""
    /\ columnConfigs = << >> =>
         yamlConfig =
           "# Validation Configuration\n"
           \o "# This file defines the validation rules for your data.\n"
           \o "# Each column in your data file should have an entry here.\n"
           \o "\n"
           \o "validations:\n"
           \o "\n"

\* The empty list has been emitted.
EmitTotalWitness ==
  /\ lastCall.op = "generate"
  /\ columnConfigs = << >>
  /\ yamlConfig /= ""

\* C13: a min (max) line is written iff min (max) is not absent; 0 is
\* written as "min: 0" / "max: 0"; this holds for the values the numeric
\* inputs store, and a bound cleared in its input is unset again.
EmitBoundsIffSet ==
  [][ /\ Emitted' =>
           LET lines == YamlLines(columnConfigs')
           IN \A k \in 1..Len(columnConfigs') :
                LET rule == columnConfigs'[k].validation
                IN /\ EntryLine(lines, k, 5) =
                        IF rule.min = None THEN "    "
                        ELSE IF rule.min = Some(0) THEN "    min: 0"
                        ELSE "    min: " \o ToString(rule.min[1])
                   /\ EntryLine(lines, k, 6) =
                        IF rule.max = None THEN "    "
                        ELSE IF rule.max = Some(0) THEN "    max: 0"
                        ELSE "    max: " \o ToString(rule.max[1])
      /\ lastCall'.op = "updateValidation" /\ "text" \in DOMAIN lastCall' =>
           LET stored ==
                 columnConfigs'[lastCall'.index + 1].validation[lastCall'.field]
           IN /\ lastCall'.text = << >> => stored = None
              /\ lastCall'.text = << "0" >> => stored = Some(0)
              /\ lastCall'.text = << "1", "2" >> => stored = Some(12)
    ]_vars

\* A config with minimum 0 and no maximum has been emitted.
EmitBoundsIffSetWitness ==
  /\ lastCall.op = "generate"
  /\ columnConfigs /= << >>
  /\ columnConfigs[1].validation.min = Some(0)
  /\ columnConfigs[1].validation.max = None
  /\ yamlConfig = generateYamlConfig(columnConfigs)

\* C17: whenever configSaved is true, yamlConfig is the text of the current
\* columnConfigs: every store call that changes the lists and Generate set
\* configSaved to false, only Save sets it to true, with the text of the
\* configs of that state.  (addColumn with no name available changes
\* nothing, configSaved included.)
SavedMeansCurrent ==
  [][ /\ configSaved' => yamlConfig' = generateYamlConfig(columnConfigs')
      /\ lastCall'.op \in { "removeColumn", "renameColumn",
                            "updateValidation", "generate" } => ~configSaved'
      /\ lastCall'.op = "addColumn" /\ availableColumns /= << >> =>
           ~configSaved'
      /\ lastCall'.op = "save" => configSaved'
      /\ configSaved' /\ ~configSaved => lastCall'.op = "save" ]_vars

\* Two configs have been saved.
SavedMeansCurrentWitness ==
  /\ lastCall.op = "save"
  /\ configSaved
  /\ Len(columnConfigs) >= 2

\* C19: Generate and Save change only yamlConfig and configSaved; Save after
\* Generate stores the same text; the store calls leave yamlConfig alone.
EmitterLeavesStore ==
  [][ /\ lastCall'.op \in { "generate", "save" } =>
           /\ columnConfigs' = columnConfigs
           /\ availableColumns' = availableColumns
           /\ loading' = loading
           /\ error' = error
      /\ lastCall.op = "generate" /\ lastCall'.op = "save" =>
           yamlConfig' = yamlConfig
      /\ lastCall'.op \in { "addColumn", "removeColumn", "renameColumn",
                            "updateValidation" } =>
           yamlConfig' = yamlConfig ]_vars

\* A config was removed after a Generate: the text is kept, out of date, and
\* the configs left are not in sorted order.
EmitterLeavesStoreWitness ==
  /\ lastCall.op = "removeColumn"
  /\ yamlConfig /= ""
  /\ yamlConfig /= generateYamlConfig(columnConfigs)
  /\ Len(columnConfigs) = 2
  /\ sortedColumnConfigs(columnConfigs) /= columnConfigs

\* C15: removeColumn deletes one config; its name n is then available and
\* bound to no config.  An addColumn that follows either claims n again,
\* with the default rule, or claims another name and leaves n available.
RemoveThenAdd ==
  [][ /\ lastCall'.op = "removeColumn" =>
           \E i \in 1..Len(columnConfigs) :
             /\ columnConfigs' = FilterIndex(columnConfigs, i - 1)
             /\ columnConfigs[i].name \in AvailableNames'
             /\ columnConfigs[i].name \notin ConfigNames'
      /\ lastCall.op = "removeColumn" /\ lastCall'.op = "addColumn" =>
           \A n \in AvailableNames :
             \/ /\ n \notin AvailableNames'
                /\ columnConfigs'[Len(columnConfigs')] =
                     [ name |-> n,
                       validation |->
                         [ type |-> "string", regex |-> None,
                           allowedValues |-> None, min |-> None,
                           max |-> None ] ]
             \/ /\ n \in AvailableNames'
                /\ n \notin ConfigNames' ]_vars

\* addColumn has acted while the name claimed first is available again.
RemoveThenAddWitness ==
  /\ lastCall.op = "addColumn"
  /\ columnConfigs /= << >>
  /\ initialAvailableColumns[1] \in AvailableNames

\* C16: the choices of a config's select are the available names and its
\* own name; renameColumn(index, own name) leaves columnConfigs and
\* availableColumns unchanged.
RenameToOwnNameNoOp ==
  [][ lastCall'.op = "renameColumn"
      /\ InRange(columnConfigs, lastCall'.index)
      /\ lastCall'.newName = At(columnConfigs, lastCall'.index).name =>
        /\ Range(SelectChoices(At(columnConfigs, lastCall'.index))) =
             AvailableNames \cup { lastCall'.newName }
        /\ columnConfigs' = columnConfigs
        /\ availableColumns' = availableColumns ]_vars

\* Ascending order of a list of names.
IsSorted(names) ==
  \A i, j \in 1..Len(names) : i <= j => NameLeq(names[i], names[j])

\* C18 as stated: availableColumns is in ascending order in every state.
AvailableSorted == IsSorted(availableColumns)

\* C18 amended: availableColumns is in ascending order after every
\* removeColumn and renameColumn and stays so; before, it is what is left
\* of the initial list.  addColumn claims the first element, which is the
\* smallest available name once the list is sorted.
AvailableSortedOnceReleased ==
  [][ /\ lastCall'.op \in { "removeColumn", "renameColumn" } =>
           IsSorted(availableColumns')
      /\ IsSorted(availableColumns) => IsSorted(availableColumns')
      /\ \/ IsSorted(availableColumns')
         \/ \E k \in 0..NumColumns :
              availableColumns' =
                SubSeq(initialAvailableColumns, k + 1, NumColumns)
      /\ lastCall'.op = "addColumn" /\ availableColumns /= << >> =>
           /\ columnConfigs'[Len(columnConfigs')].name = availableColumns[1]
           /\ IsSorted(availableColumns) =>
                \A n \in AvailableNames :
                  NameLeq(columnConfigs'[Len(columnConfigs')].name, n)
    ]_vars

\* A name was released while another was available: the list is sorted and
\* no longer a part of the initial list.
AvailableSortedOnceReleasedWitness ==
  /\ lastCall.op \in { "removeColumn", "renameColumn" }
  /\ Len(availableColumns) >= 2
  /\ IsSorted(availableColumns)
  /\ \A k \in 0..NumColumns :
       availableColumns /= SubSeq(initialAvailableColumns, k + 1, NumColumns)

\* C20 as stated: no config at the start, 23 distinct names in all, the two
\* lists hold 23 elements together in every state.
UniverseOfTwentyThree ==
  /\ lastCall.op = "mount" => columnConfigs = << >>
  /\ Cardinality(ConfigNames \cup AvailableNames) = 23
  /\ Len(columnConfigs) + Len(availableColumns) = 23

\* C20 amended: no config at the start and availableColumns holds the 24
\* distinct names; in every state the two lists hold 24 elements together;
\* addColumn adds one config while fewer than 24 exist and changes nothing
\* once there are 24.
UniverseOfTwentyFour ==
  /\ [](/\ lastCall.op = "mount" =>
             /\ columnConfigs = << >>
             /\ Cardinality(AvailableNames) = 24
         /\ Cardinality(ConfigNames \cup AvailableNames) = 24
         /\ Len(columnConfigs) + Len(availableColumns) = 24)
  /\ [][ lastCall'.op = "addColumn" =>
           IF Len(columnConfigs) < 24
           THEN Len(columnConfigs') = Len(columnConfigs) + 1
           ELSE /\ columnConfigs' = columnConfigs
                /\ availableColumns' = availableColumns ]_vars

\* Every name is claimed and Add Column was called.
UniverseOfTwentyFourWitness ==
  /\ lastCall.op = "addColumn"
  /\ Len(columnConfigs) = 24
  /\ availableColumns = << >>

====
